---- MODULE Spec2Model ----
(***************************************************************************)
(* Model of build.py, the static site builder: the post loader             *)
(* (parse_post), the thumbnail cache (generate_thumbnails), the page       *)
(* builders (build_post_pages, build_index_page, build_tag_pages,          *)
(* build_rss), copy_static and the orchestration in main.                  *)
(*                                                                         *)
(* Paths are strings relative to the directory they live in, file          *)
(* modification times are integers, calendar dates are the integer         *)
(* yyyymmdd.                                                               *)
(***************************************************************************)
EXTENDS Integers, Sequences, FiniteSets, TLC

VARIABLES
    posts_subdir,   \* POSTS_SUBDIR, read from config.yaml at import time
    today,          \* datetime.today().date() of the builds
    data,           \* DATA_DIR: its entries [name, fm, mtime] in directory order
    imgs,           \* IMG_DIR: names of the image files present
    static,         \* ROOT/static: relative path -> mtime
    has_css,        \* TEMPLATES_DIR/styles.css exists
    tmpl_mtime,     \* st_mtime of TEMPLATES_DIR/post.html
    out,            \* OUT_DIR: relative path -> file
    clock,          \* the time stamped on files written now
    pc,             \* position of main
    posts,          \* main's list of loaded posts
    i,              \* build_post_pages: index of the next post of the loop
    rendered,       \* indices of posts rendered by build_post_pages in this build
    gen_count,      \* image -> number of generate_thumbnail calls that completed
    fail_step,      \* the step of main that raised, "" when none did
    builds,         \* number of invocations of main so far
    fresh           \* the previous main completed and no input was touched since

vars == <<posts_subdir, today, data, imgs, static, has_css, tmpl_mtime, out, clock,
          pc, posts, i, rendered, gen_count, fail_step, builds, fresh>>

(***************************************************************************)
(* Bounds of the model.                                                    *)
(***************************************************************************)
MaxTime == 3
MaxBuilds == 2
MaxLongPosts == 11
MaxTouched == 2

(***************************************************************************)
(* Strings.                                                                *)
(***************************************************************************)
Chars(s) == [k \in 1..Len(s) |-> SubSeq(s, k, k)]

RECURSIVE LStrip(_, _)
LStrip(s, c) == IF Len(s) > 0 /\ SubSeq(s, 1, 1) = c THEN LStrip(SubSeq(s, 2, Len(s)), c) ELSE s

EndsWith(s, suffix) ==
    /\ Len(s) >= Len(suffix)
    /\ SubSeq(s, Len(s) - Len(suffix) + 1, Len(s)) = suffix

\* str.rfind, as a 1-based position, 0 when c does not occur
RFind(s, c) ==
    LET hits == {k \in 1..Len(s) : SubSeq(s, k, k) = c}
    IN  IF hits = {} THEN 0 ELSE CHOOSE k \in hits : \A h \in hits : h <= k

RECURSIVE Split(_, _)
Split(s, c) ==
    LET hits == {k \in 1..Len(s) : SubSeq(s, k, k) = c}
    IN  IF hits = {} THEN <<s>>
        ELSE LET k == CHOOSE h \in hits : \A g \in hits : h <= g
             IN  <<SubSeq(s, 1, k - 1)>> \o Split(SubSeq(s, k + 1, Len(s)), c)

DigitValue(c) ==
    CASE c = "0" -> 0 [] c = "1" -> 1 [] c = "2" -> 2 [] c = "3" -> 3 [] c = "4" -> 4
      [] c = "5" -> 5 [] c = "6" -> 6 [] c = "7" -> 7 [] c = "8" -> 8 [] c = "9" -> 9
      [] OTHER -> -1

IsDigits(s) == Len(s) > 0 /\ \A k \in 1..Len(s) : DigitValue(SubSeq(s, k, k)) >= 0

RECURSIVE ToNat(_)
ToNat(s) ==
    IF Len(s) = 0 THEN 0
    ELSE 10 * ToNat(SubSeq(s, 1, Len(s) - 1)) + DigitValue(SubSeq(s, Len(s), Len(s)))

\* PurePath.stem: the name without its last suffix; a name whose only dot is
\* the leading one, or that ends with a dot, has no suffix
Stem(name) ==
    LET j == RFind(name, ".")
    IN  IF 1 < j /\ j < Len(name) THEN SubSeq(name, 1, j - 1) ELSE name

(***************************************************************************)
(* Values of front matter fields, as yaml.safe_load returns them: absent,  *)
(* a string, or a list of strings.                                         *)
(***************************************************************************)
YAbsent == [t |-> "absent", s |-> "", l |-> <<>>]
YStr(s) == [t |-> "str", s |-> s, l |-> <<>>]
YList(l) == [t |-> "list", s |-> "", l |-> l]

\* what a Python for loop over the value visits: the items of a list, the
\* characters of a string
Iter(y) == IF y.t = "str" THEN Chars(y.s) ELSE y.l

\* a date field: absent, a date object (yaml parsed it), or a text
DAbsent == [t |-> "absent", d |-> 0, s |-> ""]
DDate(d) == [t |-> "date", d |-> d, s |-> ""]
DText(s) == [t |-> "str", d |-> 0, s |-> s]

(***************************************************************************)
(* datetime.strptime(text, "%Y-%m-%d").date()                              *)
(***************************************************************************)
DaysIn(y, m) ==
    IF m \in {4, 6, 9, 11} THEN 30
    ELSE IF m = 2 THEN (IF (y % 4 = 0 /\ y % 100 # 0) \/ y % 400 = 0 THEN 29 ELSE 28)
    ELSE 31

strptime(text) ==
    LET parts == Split(text, "-")
        shape == /\ Len(parts) = 3
                 /\ Len(parts[1]) = 4 /\ IsDigits(parts[1])
                 /\ Len(parts[2]) \in {1, 2} /\ IsDigits(parts[2])
                 /\ Len(parts[3]) \in {1, 2} /\ IsDigits(parts[3])
        y == ToNat(parts[1])
        m == ToNat(parts[2])
        d == ToNat(parts[3])
    IN  IF shape /\ y >= 1 /\ m \in 1..12 /\ d >= 1 /\ d <= DaysIn(y, m)
        THEN [ok |-> TRUE, d |-> y * 10000 + m * 100 + d]
        ELSE [ok |-> FALSE, d |-> 0]

(***************************************************************************)
(* parse_post                                                              *)
(***************************************************************************)
\* the site-relative URL of a slug
UrlOf(subdir, slug) ==
    LET post_path == IF subdir # "" THEN subdir \o "/" \o slug \o ".html"
                     ELSE slug \o ".html"
    IN  "/" \o post_path

NoPost == [slug |-> "", source |-> "", date |-> 0, url |-> "",
           tags |-> YAbsent, images |-> YAbsent]

\* fm.kind: "none" the content does not start with the delimiter; "map" the
\* front matter is a mapping; "unclosed" fewer than two delimiters follow the
\* first one's start (the unpacking of split raises); "yaml_error" safe_load
\* raises; "empty" safe_load returns None (the item assignment raises)
parse_post(md_path, fm, subdir, now) ==
    LET meta == IF fm.kind = "none"
                THEN [date |-> DAbsent, tags |-> YAbsent, img |-> YAbsent]
                ELSE [date |-> fm.date, tags |-> fm.tags, img |-> fm.img]
        slug == Stem(md_path)
        parsed == IF meta.date.t = "str" THEN strptime(meta.date.s)
                  ELSE [ok |-> TRUE, d |-> IF meta.date.t = "absent" THEN now ELSE meta.date.d]
        tags == IF meta.tags.t = "absent" THEN YList(<<>>) ELSE meta.tags
        img0 == IF meta.img.t = "absent" THEN YList(<<>>) ELSE meta.img
        images == IF img0.t = "str" THEN YList(<<img0.s>>) ELSE img0
    IN  IF fm.kind \in {"unclosed", "yaml_error", "empty"} \/ ~parsed.ok
        THEN [ok |-> FALSE, post |-> NoPost]
        ELSE [ok |-> TRUE,
              post |-> [slug |-> slug, source |-> md_path, date |-> parsed.d,
                        url |-> UrlOf(subdir, slug), tags |-> tags, images |-> images]]

(***************************************************************************)
(* The output tree.  A file is [kind, name, post, posts, mtime]: kind is   *)
(* "static" (copied by copy_static, name the source), "thumb" (name the    *)
(* image), "post" (post the rendered post), "index", "tag" (name the tag)  *)
(* or "rss"; posts is the listing an aggregate page was rendered with.     *)
(***************************************************************************)
File(kind, name, post, listing, mtime) ==
    [kind |-> kind, name |-> name, post |-> post, posts |-> listing, mtime |-> mtime]

EmptyDir == [p \in {} |-> File("static", "", NoPost, <<>>, 0)]

\* write_file, Image.save, shutil.copy*: create or replace the file at path
WriteFile(fs, path, file) ==
    [p \in DOMAIN fs \cup {path} |-> IF p = path THEN file ELSE fs[p]]

\* OUT_DIR / post["url"].lstrip("/")
OutPath(post) == LStrip(post.url, "/")

ThumbPath(img) == "thumbs/" \o img

TagPath(tag) == "tag-" \o tag \o ".html"

\* st_mtime of a post's source file
SourceMtime(dir, name) ==
    LET k == CHOOSE j \in 1..Len(dir) : dir[j].name = name IN dir[k].mtime

(***************************************************************************)
(* copy_static                                                             *)
(***************************************************************************)
\* shutil.copytree(ROOT / "img", OUT_DIR / "img"): copy2 keeps the modification
\* time, which the model takes to be 0 for every image
CopyImages(fs, images) ==
    [p \in DOMAIN fs \cup {"img/" \o n : n \in images} |->
        IF \E n \in images : p = "img/" \o n
        THEN File("static", p, NoPost, <<>>, 0)
        ELSE fs[p]]

\* the files of ROOT / "static", copied to the same relative path by copy2
CopyStaticRoot(fs, staticFiles) ==
    [p \in DOMAIN fs \cup DOMAIN staticFiles |->
        IF p \in DOMAIN staticFiles
        THEN File("static", "static/" \o p, NoPost, <<>>, staticFiles[p])
        ELSE fs[p]]

copy_static_result(fs, images, staticFiles, css, now) ==
    LET fs2 == CopyStaticRoot(CopyImages(fs, images), staticFiles)
    IN  IF css
        THEN WriteFile(fs2, "styles.css", File("static", "templates/styles.css", NoPost, <<>>, now))
        ELSE fs2

(***************************************************************************)
(* main's loading loop                                                     *)
(***************************************************************************)
RECURSIVE LoadPostsSkipping(_, _, _, _)
\* LoadPosts with the failure of one post caught: the post is left out and
\* the loop goes on
LoadPostsSkipping(dir, subdir, now, acc) ==
    IF dir = <<>> THEN [ok |-> TRUE, posts |-> acc]
    ELSE IF ~EndsWith(Head(dir).name, ".md") THEN LoadPostsSkipping(Tail(dir), subdir, now, acc)
    ELSE LET r == parse_post(Head(dir).name, Head(dir).fm, subdir, now)
         IN  IF r.ok THEN LoadPostsSkipping(Tail(dir), subdir, now, Append(acc, r.post))
             ELSE LoadPostsSkipping(Tail(dir), subdir, now, acc)

RECURSIVE LoadPosts(_, _, _, _)
\* [ok, posts]: the posts of the entries that glob yields, in directory order;
\* ok is FALSE when parse_post raised, which ends main
LoadPosts(dir, subdir, now, acc) ==
    IF dir = <<>> THEN [ok |-> TRUE, posts |-> acc]
    ELSE IF ~EndsWith(Head(dir).name, ".md") THEN LoadPosts(Tail(dir), subdir, now, acc)
    ELSE LET r == parse_post(Head(dir).name, Head(dir).fm, subdir, now)
         IN  IF r.ok THEN LoadPosts(Tail(dir), subdir, now, Append(acc, r.post))
             ELSE [ok |-> FALSE, posts |-> acc]

(***************************************************************************)
(* generate_thumbnails                                                     *)
(***************************************************************************)
RECURSIVE ImageRefs(_)
\* the image references in the order the two nested loops visit them
ImageRefs(ps) == IF ps = <<>> THEN <<>> ELSE Iter(Head(ps).images) \o ImageRefs(Tail(ps))

RECURSIVE GenerateThumbnails(_, _, _, _, _)
\* [ok, out, gen]: ok is FALSE when Image.open raised on a missing source image
GenerateThumbnails(fs, gen, refs, images, now) ==
    IF refs = <<>> THEN [ok |-> TRUE, out |-> fs, gen |-> gen]
    ELSE LET img == Head(refs)
         IN  IF ThumbPath(img) \in DOMAIN fs
             THEN GenerateThumbnails(fs, gen, Tail(refs), images, now)
             ELSE IF img \notin images
             THEN [ok |-> FALSE, out |-> fs, gen |-> gen]
             ELSE GenerateThumbnails(
                      WriteFile(fs, ThumbPath(img), File("thumb", img, NoPost, <<>>, now)),
                      [gen EXCEPT ![img] = @ + 1], Tail(refs), images, now)

(***************************************************************************)
(* build_post_pages: the test that skips a post                            *)
(***************************************************************************)
\* SkipsPost with the comparisons not strict
SkipsPostNonStrict(fs, output_path, source_mtime, template_mtime) ==
    /\ output_path \in DOMAIN fs
    /\ source_mtime <= fs[output_path].mtime
    /\ template_mtime <= fs[output_path].mtime

SkipsPost(fs, output_path, source_mtime, template_mtime) ==
    /\ output_path \in DOMAIN fs
    /\ source_mtime < fs[output_path].mtime
    /\ template_mtime < fs[output_path].mtime

(***************************************************************************)
(* sorted(posts, key=lambda p: p["date"], reverse=True): descending by     *)
(* date, posts of equal date in their order in the argument                *)
(***************************************************************************)
RECURSIVE InsertByDateUnstable(_, _)
\* InsertByDate that puts a post before the posts of its own date
InsertByDateUnstable(sorted, p) ==
    IF sorted = <<>> THEN <<p>>
    ELSE IF Head(sorted).date > p.date
         THEN <<Head(sorted)>> \o InsertByDateUnstable(Tail(sorted), p)
    ELSE <<p>> \o sorted

RECURSIVE InsertByDate(_, _)
InsertByDate(sorted, p) ==
    IF sorted = <<>> THEN <<p>>
    ELSE IF Head(sorted).date >= p.date THEN <<Head(sorted)>> \o InsertByDate(Tail(sorted), p)
    ELSE <<p>> \o sorted

RECURSIVE SortedByDateDesc(_)
SortedByDateDesc(ps) ==
    IF ps = <<>> THEN <<>>
    ELSE InsertByDate(SortedByDateDesc(SubSeq(ps, 1, Len(ps) - 1)), ps[Len(ps)])

(***************************************************************************)
(* build_tag_pages                                                         *)
(***************************************************************************)
RECURSIVE TagKeys(_, _)
\* the keys of the tags dict in insertion order
TagKeys(tagRefs, acc) ==
    IF tagRefs = <<>> THEN acc
    ELSE IF \E k \in 1..Len(acc) : acc[k] = Head(tagRefs) THEN TagKeys(Tail(tagRefs), acc)
    ELSE TagKeys(Tail(tagRefs), Append(acc, Head(tagRefs)))

RECURSIVE AllTagRefs(_)
AllTagRefs(ps) == IF ps = <<>> THEN <<>> ELSE Iter(Head(ps).tags) \o AllTagRefs(Tail(ps))

RECURSIVE Appended(_, _, _)
\* what the inner loop appends to tags[tag] for one post: the post, once per
\* item of its tags that equals tag
Appended(post, tagRefs, tag) ==
    IF tagRefs = <<>> THEN <<>>
    ELSE (IF Head(tagRefs) = tag THEN <<post>> ELSE <<>>) \o Appended(post, Tail(tagRefs), tag)

RECURSIVE TagGroup(_, _)
\* tags[tag] after the grouping loop
TagGroup(ps, tag) ==
    IF ps = <<>> THEN <<>>
    ELSE Appended(Head(ps), Iter(Head(ps).tags), tag) \o TagGroup(Tail(ps), tag)

RECURSIVE WriteTagPages(_, _, _, _)
WriteTagPages(fs, keys, ps, now) ==
    IF keys = <<>> THEN fs
    ELSE WriteTagPages(
             WriteFile(fs, TagPath(Head(keys)),
                       File("tag", Head(keys), NoPost, SortedByDateDesc(TagGroup(ps, Head(keys))), now)),
             Tail(keys), ps, now)

(***************************************************************************)
(* build_rss: the slice [:10]                                              *)
(***************************************************************************)
FeedLimit == 10

FeedWindow(sorted) == SubSeq(sorted, 1, IF Len(sorted) < FeedLimit THEN Len(sorted) ELSE FeedLimit)

(***************************************************************************)
(* The sites the builds start from.                                        *)
(***************************************************************************)
Fm(kind, date, tags, img) == [kind |-> kind, date |-> date, tags |-> tags, img |-> img]

fmNone == Fm("none", DAbsent, YAbsent, YAbsent)
fmOld == Fm("map", DDate(20240101), YList(<<"x">>), YStr("a.png"))
fmNew == Fm("map", DText("2024-02-01"), YList(<<"x", "y">>), YList(<<"a.png", "b.png">>))
fmDup == Fm("map", DDate(20240201), YList(<<"x", "x">>), YAbsent)
fmStrTag == Fm("map", DDate(20240101), YStr("xy"), YList(<<"b.png">>))
fmBadDate == Fm("map", DText("2024/01/01"), YList(<<"x">>), YStr("a.png"))
fmBadYaml == Fm("yaml_error", DAbsent, YAbsent, YAbsent)
fmUnclosed == Fm("unclosed", DAbsent, YAbsent, YAbsent)
fmEmpty == Fm("empty", DAbsent, YAbsent, YAbsent)
fmLongOld == Fm("map", DDate(20240101), YList(<<"x">>), YAbsent)
fmLongNew == Fm("map", DDate(20240201), YList(<<"x">>), YAbsent)

FrontMatters == {fmNone, fmOld, fmNew, fmDup, fmStrTag, fmBadDate, fmBadYaml, fmUnclosed, fmEmpty}

AllImages == {"a.png", "b.png"}

Entry(name, fm) == [name |-> name, fm |-> fm, mtime |-> 1]

NoStatic == [p \in {} |-> 0]

Site(subdir, dir, images, staticFiles, css) ==
    [subdir |-> subdir, dir |-> dir, imgs |-> images, static |-> staticFiles, css |-> css]

\* up to two posts of every content
ContentSites ==
    LET dirs == {<<>>} \cup {<<Entry("a.md", f)>> : f \in FrontMatters}
                \cup {<<Entry("a.md", f), Entry("b.md", g)>> : f \in FrontMatters, g \in FrontMatters}
    IN  {Site("posts", d, AllImages, NoStatic, FALSE) : d \in dirs}

\* every set of source images present
ImageSites ==
    LET dirs == {<<Entry("a.md", fmNew)>>,
                 <<Entry("a.md", fmOld), Entry("b.md", fmNew)>>,
                 <<Entry("a.md", fmStrTag), Entry("b.md", fmOld)>>}
    IN  {Site("posts", d, im, NoStatic, FALSE) : d \in dirs, im \in SUBSET AllImages}

\* up to two of these file names, under both settings of posts_subdir
FileNames == <<"a.md", "index.md", "tag-x.md", ".md", ".md.md", "notes.txt">>

NameSites ==
    LET one == {<<Entry(FileNames[j], fmOld)>> : j \in 1..Len(FileNames)}
        two == {<<Entry(FileNames[j], fmOld), Entry(FileNames[k], fmOld)>> :
                    j \in 1..Len(FileNames), k \in 1..Len(FileNames)}
        dirs == one \cup {d \in two : \E j, k \in 1..Len(FileNames) :
                                          j < k /\ d[1].name = FileNames[j] /\ d[2].name = FileNames[k]}
    IN  {Site(sd, d, AllImages, NoStatic, FALSE) : sd \in {"posts", ""}, d \in dirs}

\* one file under ROOT/static, of every modification time up to the first build
StaticSites ==
    LET paths == {"posts/a.html", "a.html", "index.html", "thumbs/a.png"}
        statics == {NoStatic} \cup {[q \in {p} |-> t] : p \in paths, t \in 0..2}
    IN  {Site(sd, <<Entry("a.md", fmOld)>>, AllImages, st, css) :
            sd \in {"posts", ""}, st \in statics, css \in BOOLEAN}

\* around FeedLimit posts of one date, at most one of them more recent
LongSites ==
    LET dir(n, k) == [j \in 1..n |->
                         Entry("p" \o ToString(j) \o ".md", IF j = k THEN fmLongNew ELSE fmLongOld)]
    IN  {Site("posts", dir(n, k), AllImages, NoStatic, FALSE) :
            n \in (FeedLimit - 1)..MaxLongPosts, k \in 0..MaxLongPosts}

Sites == ContentSites \cup ImageSites \cup NameSites \cup StaticSites \cup LongSites

Init ==
    \E site \in Sites :
        /\ posts_subdir = site.subdir
        /\ today = 20240301
        /\ data = site.dir
        /\ imgs = site.imgs
        /\ static = site.static
        /\ has_css = site.css
        /\ tmpl_mtime = 1
        /\ out = EmptyDir
        /\ clock = 2
        /\ pc = "idle"
        /\ posts = <<>>
        /\ i = 1
        /\ rendered = {}
        /\ gen_count = [n \in AllImages |-> 0]
        /\ fail_step = ""
        /\ builds = 0
        /\ fresh = FALSE

(***************************************************************************)
(* main, step by step.                                                     *)
(***************************************************************************)
Stopped == pc \in {"idle", "done", "failed"}

\* main: rmtree(OUT_DIR), OUT_DIR.mkdir(), THUMB_DIR.mkdir()
main_begin ==
    /\ Stopped
    /\ builds < MaxBuilds
    /\ builds' = builds + 1
    /\ out' = EmptyDir
    /\ posts' = <<>>
    /\ i' = 1
    /\ rendered' = {}
    /\ fail_step' = ""
    /\ pc' = "copy_static"
    /\ UNCHANGED <<posts_subdir, today, data, imgs, static, has_css, tmpl_mtime, clock,
                   gen_count, fresh>>

copy_static ==
    /\ pc = "copy_static"
    /\ out' = copy_static_result(out, imgs, static, has_css, clock)
    /\ pc' = "load"
    /\ UNCHANGED <<posts_subdir, today, data, imgs, static, has_css, tmpl_mtime, clock,
                   posts, i, rendered, gen_count, fail_step, builds, fresh>>

\* main: the loop over DATA_DIR.glob("*.md")
main_load ==
    /\ pc = "load"
    /\ LET r == LoadPosts(data, posts_subdir, today, <<>>)
       IN  /\ posts' = r.posts
           /\ pc' = IF r.ok THEN "thumbs" ELSE "failed"
           /\ fail_step' = IF r.ok THEN "" ELSE "load"
           /\ fresh' = IF r.ok THEN fresh ELSE FALSE
    /\ UNCHANGED <<posts_subdir, today, data, imgs, static, has_css, tmpl_mtime, out, clock,
                   i, rendered, gen_count, builds>>

generate_thumbnails ==
    /\ pc = "thumbs"
    /\ LET r == GenerateThumbnails(out, gen_count, ImageRefs(posts), imgs, clock)
       IN  /\ out' = r.out
           /\ gen_count' = r.gen
           /\ pc' = IF r.ok THEN "post_pages" ELSE "failed"
           /\ fail_step' = IF r.ok THEN "" ELSE "thumbs"
           /\ fresh' = IF r.ok THEN fresh ELSE FALSE
    /\ UNCHANGED <<posts_subdir, today, data, imgs, static, has_css, tmpl_mtime, clock,
                   posts, i, rendered, builds>>

\* build_post_pages: one iteration of its loop
build_post_page ==
    /\ pc = "post_pages"
    /\ i <= Len(posts)
    /\ LET post == posts[i]
           output_path == OutPath(post)
       IN  IF SkipsPost(out, output_path, SourceMtime(data, post.source), tmpl_mtime)
           THEN UNCHANGED <<out, rendered>>
           ELSE /\ out' = WriteFile(out, output_path, File("post", "", post, <<>>, clock))
                /\ rendered' = rendered \cup {i}
    /\ i' = i + 1
    /\ UNCHANGED <<posts_subdir, today, data, imgs, static, has_css, tmpl_mtime, clock,
                   pc, posts, gen_count, fail_step, builds, fresh>>

build_index_page ==
    /\ pc = "post_pages"
    /\ i > Len(posts)
    /\ out' = WriteFile(out, "index.html", File("index", "", NoPost, SortedByDateDesc(posts), clock))
    /\ pc' = "tag_pages"
    /\ UNCHANGED <<posts_subdir, today, data, imgs, static, has_css, tmpl_mtime, clock,
                   posts, i, rendered, gen_count, fail_step, builds, fresh>>

build_tag_pages ==
    /\ pc = "tag_pages"
    /\ out' = WriteTagPages(out, TagKeys(AllTagRefs(posts), <<>>), posts, clock)
    /\ pc' = "rss"
    /\ UNCHANGED <<posts_subdir, today, data, imgs, static, has_css, tmpl_mtime, clock,
                   posts, i, rendered, gen_count, fail_step, builds, fresh>>

build_rss ==
    /\ pc = "rss"
    /\ out' = WriteFile(out, "rss.xml", File("rss", "", NoPost, FeedWindow(SortedByDateDesc(posts)), clock))
    /\ pc' = "done"
    /\ fresh' = TRUE
    /\ UNCHANGED <<posts_subdir, today, data, imgs, static, has_css, tmpl_mtime, clock,
                   posts, i, rendered, gen_count, fail_step, builds>>

(***************************************************************************)
(* What happens to the inputs between two builds: time passes, and a post  *)
(* source or the post template is saved again.                             *)
(***************************************************************************)
Tick ==
    /\ pc = "done"
    /\ clock < MaxTime
    /\ clock' = clock + 1
    /\ UNCHANGED <<posts_subdir, today, data, imgs, static, has_css, tmpl_mtime, out,
                   pc, posts, i, rendered, gen_count, fail_step, builds, fresh>>

\* a post source is saved: as it was, or with one of the contents of Edits
Edits == {fmBadDate, fmDup}

SavePost ==
    /\ pc = "done"
    /\ \E k \in 1..Len(data) :
        /\ k <= MaxTouched
        /\ \E f \in {data[k].fm} \cup Edits :
               data' = [data EXCEPT ![k] = [name |-> data[k].name, fm |-> f, mtime |-> clock]]
    /\ fresh' = FALSE
    /\ pc' = "idle"
    /\ UNCHANGED <<posts_subdir, today, imgs, static, has_css, tmpl_mtime, out, clock,
                   posts, i, rendered, gen_count, fail_step, builds>>

TouchTemplate ==
    /\ pc = "done"
    /\ tmpl_mtime' = clock
    /\ fresh' = FALSE
    /\ pc' = "idle"
    /\ UNCHANGED <<posts_subdir, today, data, imgs, static, has_css, out, clock,
                   posts, i, rendered, gen_count, fail_step, builds>>

Next ==
    \/ main_begin
    \/ copy_static
    \/ main_load
    \/ generate_thumbnails
    \/ build_post_page
    \/ build_index_page
    \/ build_tag_pages
    \/ build_rss
    \/ Tick
    \/ SavePost
    \/ TouchTemplate

Spec == Init /\ [][Next]_vars

(***************************************************************************)
(* Properties.                                                             *)
(***************************************************************************)
StartsWith(s, prefix) == Len(s) >= Len(prefix) /\ SubSeq(s, 1, Len(prefix)) = prefix

BuiltKinds == {"thumb", "post", "index", "tag", "rss"}

Elements(seq) == {seq[k] : k \in 1..Len(seq)}

\* the images the loaded posts refer to
Referenced == UNION {Elements(Iter(posts[k].images)) : k \in 1..Len(posts)}

\* C1: the thumbnail cache is additive and persists across builds: no step
\* deletes a file under thumbs/, and over the whole sequence of builds the
\* crop/resize of an image is performed at most once.
C1_ThumbnailCachePersists ==
    [][/\ \A p \in DOMAIN out : StartsWith(p, "thumbs/") => p \in DOMAIN out'
       /\ \A n \in AllImages : gen_count'[n] <= 1]_vars

\* C2: a build that follows a completed build, with no post source and no
\* template saved in between, renders no post page.
C2_UnchangedRebuildRendersNothing ==
    (pc \in {"post_pages", "tag_pages", "rss"} /\ fresh) => rendered = {}

\* C3: an iteration of build_post_pages leaves the output tree alone exactly
\* when the post's output file exists and the source's and the template's
\* modification times are both strictly earlier than the output's; otherwise
\* it renders the post and writes the page to the output path.
C3_SkipIffOutputNewer ==
    [][(pc = "post_pages" /\ i <= Len(posts)) =>
          LET post == posts[i]
              path == OutPath(post)
              newer == /\ path \in DOMAIN out
                       /\ SourceMtime(data, post.source) < out[path].mtime
                       /\ tmpl_mtime < out[path].mtime
          IN  IF newer
              THEN out' = out /\ i \notin rendered'
              ELSE /\ i \in rendered'
                   /\ path \in DOMAIN out'
                   /\ out'[path].kind = "post"
                   /\ out'[path].post = post
                   /\ \A q \in DOMAIN out \ {path} : q \in DOMAIN out' /\ out'[q] = out[q]]_vars

\* the loop has skipped its first post, whose output file is the newer file
\* copy_static put at the post's output path
C3_Witness ==
    /\ pc = "post_pages"
    /\ i = 2
    /\ 1 \notin rendered
    /\ out[OutPath(posts[1])].kind = "static"
    /\ SourceMtime(data, posts[1].source) < out[OutPath(posts[1])].mtime

\* C4: when a referenced image is missing from the image directory, a build
\* whose posts all loaded still ends with the thumbnail of every other
\* referenced image in place and with the post pages, index and feed built.
C4_MissingImageIsIsolated ==
    (pc \in {"done", "failed"} /\ fail_step # "load" /\ Referenced \ imgs # {}) =>
        /\ \A n \in Referenced \cap imgs : ThumbPath(n) \in DOMAIN out
        /\ \A k \in 1..Len(posts) : OutPath(posts[k]) \in DOMAIN out
        /\ "index.html" \in DOMAIN out
        /\ "rss.xml" \in DOMAIN out

\* a post source that parse_post raises on
BadSource(e) ==
    /\ EndsWith(e.name, ".md")
    /\ \/ e.fm.kind \in {"yaml_error", "unclosed", "empty"}
       \/ e.fm.kind = "map" /\ e.fm.date.t = "str" /\ ~strptime(e.fm.date.s).ok

\* C5: once the loading step of a build has run over a directory that holds
\* a post parse_post fails on, the build has failed in that step and the
\* output tree holds no thumbnail, post page, index, tag page or feed.
C5_LoadFailureAbortsBuild ==
    (pc \in {"thumbs", "post_pages", "tag_pages", "rss", "done", "failed"}
        /\ \E k \in 1..Len(data) : BadSource(data[k])) =>
        /\ pc = "failed"
        /\ fail_step = "load"
        /\ \A p \in DOMAIN out : out[p].kind \notin BuiltKinds

\* the second build fails on a post saved with a bad date after a first build
\* that completed, next to a post that loads and refers to images
C5_Witness ==
    /\ pc = "failed"
    /\ fail_step = "load"
    /\ builds = 2
    /\ \E k \in 1..Len(data) : ~BadSource(data[k]) /\ data[k].fm.img.t # "absent"
    /\ \A n \in AllImages : gen_count[n] = 1

\* C6: the tags and the images of every loaded post are sequences.
C6_TagsAndImagesAreSequences ==
    \A k \in 1..Len(posts) : posts[k].tags.t = "list" /\ posts[k].images.t = "list"

\* the tags a post declares
DeclaredTags(post) == IF post.tags.t = "str" THEN {post.tags.s} ELSE Elements(post.tags.l)

\* C7: after build_tag_pages there is exactly one tag page per distinct tag
\* of the posts, and the page of a tag lists each post that carries the tag
\* exactly once.
C7_TagPagesListEachPostOnce ==
    pc \in {"rss", "done"} =>
        LET tags == UNION {DeclaredTags(posts[k]) : k \in 1..Len(posts)}
        IN  /\ {p \in DOMAIN out : out[p].kind = "tag"} = {TagPath(t) : t \in tags}
            /\ \A t \in tags : \A k \in 1..Len(posts) :
                   t \in DeclaredTags(posts[k]) =>
                       Cardinality({j \in 1..Len(out[TagPath(t)].posts) :
                                       out[TagPath(t)].posts[j] = posts[k]}) = 1

\* C8: the urls of the loaded posts are pairwise different, and a page that
\* build_post_pages rendered is still the page of its post when the loop is
\* over.
C8_UrlsUniqueNoOverwrite ==
    /\ \A j, k \in 1..Len(posts) : j # k => posts[j].url # posts[k].url
    /\ (pc = "post_pages" /\ i > Len(posts)) =>
           \A k \in rendered : out[OutPath(posts[k])].post = posts[k]

\* the position of a post in load order
LoadIndex(post) == CHOOSE k \in 1..Len(posts) : posts[k] = post

\* p is listed no later than q in recency order
NotAfter(p, q) ==
    \/ p.date > q.date
    \/ p.date = q.date /\ LoadIndex(p) <= LoadIndex(q)

RecencyOrdered(listing) ==
    \A a, b \in 1..Len(listing) : a < b => NotAfter(listing[a], listing[b])

\* C9: the index lists all posts, a tag page the posts carrying its tag, and
\* the feed the first min(10, n) posts of the index order, each in descending
\* date order with posts of equal date in load order.
C9_AggregatesOrderedByRecency ==
    \A p \in DOMAIN out :
        LET listing == out[p].posts
        IN  /\ out[p].kind = "index" =>
                /\ RecencyOrdered(listing)
                /\ Len(listing) = Len(posts)
                /\ Elements(listing) = Elements(posts)
            /\ out[p].kind = "tag" =>
                /\ RecencyOrdered(listing)
                /\ Elements(listing) =
                       {q \in Elements(posts) : out[p].name \in Elements(Iter(q.tags))}
            /\ out[p].kind = "rss" =>
                /\ RecencyOrdered(listing)
                /\ Len(listing) = (IF Len(posts) < 10 THEN Len(posts) ELSE 10)
                /\ Cardinality(Elements(listing)) = Len(listing)
                /\ Elements(listing) \subseteq Elements(posts)
                /\ \A q \in Elements(posts) \ Elements(listing) :
                       \A r \in Elements(listing) : NotAfter(r, q)

\* a build of more than ten posts is done: the most recent post was loaded
\* last and heads the feed, and a post of the index is missing from the feed
C9_Witness ==
    /\ pc = "done"
    /\ Len(posts) > 10
    /\ out["rss.xml"].posts[1] = posts[Len(posts)]
    /\ out["index.html"].posts[1] = posts[Len(posts)]
    /\ Len(out["tag-x.html"].posts) = Len(posts)
    /\ posts[1].date = posts[2].date

\* C10: when main has completed, the file at the output path of every
\* loaded post is the page rendered for that post.
C10_PostPagesInPlace ==
    pc = "done" =>
        \A k \in 1..Len(posts) :
            /\ OutPath(posts[k]) \in DOMAIN out
            /\ out[OutPath(posts[k])].kind = "post"
            /\ out[OutPath(posts[k])].post = posts[k]

====
